---------------------------- MODULE Spec2Model ----------------------------
(***************************************************************************)
(* tailgate: a mixed-protocol relay.  One accepted connection is followed  *)
(* from handleConn (proxy.go) through the one-byte protocol peek, the      *)
(* SOCKS5 hand-off or handleHTTPConnect (request read under a byte cap,    *)
(* method check, connectTarget, dial, 200 reply) to the two relay tasks    *)
(* and the deferred closes.                                                *)
(*                                                                         *)
(* Units.  The client stream is a sequence of tokens; one token stands for *)
(* one unit of the byte quota (a request line, a header line or a payload  *)
(* byte).  BufSize stands for bufio's buffer (4096 bytes), ReqCap for      *)
(* maxConnectRequestBytes (8192 bytes); the deadlines are counted in ticks.*)
(* Time advances (Tick) only while every task of the proxy is blocked, and *)
(* a write to a stream that is open completes at once.                     *)
(***************************************************************************)
EXTENDS Integers, Sequences, FiniteSets, TLC

(* ------------------------------ bounds --------------------------------- *)
\* size of a bufio.Reader buffer, in tokens (bufio default: 4096 bytes)
BufSize == 2
\* the request byte cap, in tokens (maxConnectRequestBytes: 8192 bytes)
ReqCap == 4
\* payload tokens the client sends after the request head
MaxPayload == 2
\* payload tokens the target sends
MaxTargetBytes == 2
\* protocolPeekTimeout, connectReadTimeout, tunnelIdleTimeout in ticks
PeekTicks == 1
ReadTicks == 1
IdleTicks == 2
\* connections offered to the listener
MaxConns == 2
\* consecutive transient accept failures
MaxFailures == 7
\* shutdownDrainTimeout in ticks
DrainTicks == 1
\* length of the strings given to connectTarget
MaxTargetLen == 4

(* --------------------------- small helpers ----------------------------- *)
Min(a, b) == IF a <= b THEN a ELSE b

Take(s, n) == SubSeq(s, 1, Min(n, Len(s)))

Drop(s, n) == SubSeq(s, Min(n, Len(s)) + 1, Len(s))

IsPrefix(p, s) == Len(p) <= Len(s) /\ p = SubSeq(s, 1, Len(p))

(* ------------------------------ tokens --------------------------------- *)
\* A token: kind k, text v (a sequence of one-character strings), number n.
Tok(k, v, n) == [k |-> k, v |-> v, n |-> n]

\* the SOCKS5 version marker, byte 0x05
SocksVersion == Tok("byte", <<>>, 5)

MethodConnect == <<"C", "O", "N", "N", "E", "C", "T">>
MethodGet == <<"G", "E", "T">>

MethodTok(m) == Tok("method", m, 0)
TargetTok(t) == Tok("target", t, 0)
HeaderTok == Tok("hdr", <<>>, 0)
EndTok == Tok("end", <<>>, 0)
JunkTok == Tok("junk", <<>>, 0)
\* the i-th payload byte written by the client / by the target
ClientByte(i) == Tok("data", <<"c">>, i)
TargetByte(i) == Tok("data", <<"t">>, i)

\* authorities a client puts in its request line
SampleTargets ==
    { <<"h", ":", "1">>, <<"h", ":", "0">>, <<":", "1">>, <<"h">> }

(* ------------------- strings, net and strconv helpers ------------------ *)
IsSpace(c) == c \in {" ", "\t", "\n", "\r"}

RECURSIVE TrimLeft(_)
TrimLeft(s) ==
    IF s # <<>> /\ IsSpace(Head(s)) THEN TrimLeft(Tail(s)) ELSE s

RECURSIVE TrimRight(_)
TrimRight(s) ==
    IF s # <<>> /\ IsSpace(s[Len(s)]) THEN TrimRight(SubSeq(s, 1, Len(s) - 1)) ELSE s

\* strings.TrimSpace
TrimSpace(s) == TrimRight(TrimLeft(s))

\* strings.ContainsAny
ContainsAny(s, chars) == \E i \in 1..Len(s) : s[i] \in chars

\* strings.Count of a one-character substring
Count(s, c) == Cardinality({i \in 1..Len(s) : s[i] = c})

\* strings.HasPrefix with a one-character prefix
HasPrefix(s, c) == s # <<>> /\ s[1] = c

\* index of the first / last c in s (1-based), 0 when there is none
IndexByte(s, c) ==
    IF \E i \in 1..Len(s) : s[i] = c
    THEN CHOOSE i \in 1..Len(s) : s[i] = c /\ \A j \in 1..(i - 1) : s[j] # c
    ELSE 0

LastIndexByte(s, c) ==
    IF \E i \in 1..Len(s) : s[i] = c
    THEN CHOOSE i \in 1..Len(s) : s[i] = c /\ \A j \in (i + 1)..Len(s) : s[j] # c
    ELSE 0

ErrMissingPort == "missing port in address"
ErrTooManyColons == "too many colons in address"

AddrErr(why) == [host |-> <<>>, port |-> <<>>, err |-> why]

\* net.SplitHostPort; err = "" on success.  Positions are 1-based.
SplitHostPort(hostport) ==
    LET n == Len(hostport)
        i == LastIndexByte(hostport, ":")
        end == IndexByte(hostport, "]")
        bracket == hostport[1] = "["
        host == IF bracket THEN SubSeq(hostport, 2, end - 1)
                ELSE SubSeq(hostport, 1, i - 1)
        \* the text after which no '[' resp. ']' may appear
        j == IF bracket THEN 1 ELSE 0
        k == IF bracket THEN end ELSE 0
    IN  IF i = 0 THEN AddrErr(ErrMissingPort)
        ELSE IF bracket /\ end = 0 THEN AddrErr("missing ']' in address")
        ELSE IF bracket /\ end = n THEN AddrErr(ErrMissingPort)
        ELSE IF bracket /\ end + 1 # i
            THEN IF hostport[end + 1] = ":" THEN AddrErr(ErrTooManyColons)
                 ELSE AddrErr(ErrMissingPort)
        ELSE IF ~bracket /\ IndexByte(host, ":") # 0 THEN AddrErr(ErrTooManyColons)
        ELSE IF IndexByte(SubSeq(hostport, j + 1, n), "[") # 0
            THEN AddrErr("unexpected '[' in address")
        ELSE IF IndexByte(SubSeq(hostport, k + 1, n), "]") # 0
            THEN AddrErr("unexpected ']' in address")
        ELSE [host |-> host, port |-> SubSeq(hostport, i + 1, n), err |-> ""]

\* net.JoinHostPort
JoinHostPort(host, port) ==
    IF IndexByte(host, ":") # 0
    THEN <<"[">> \o host \o <<"]", ":">> \o port
    ELSE host \o <<":">> \o port

Digits == <<"0", "1", "2", "3", "4", "5", "6", "7", "8", "9">>

IsDigit(c) == \E d \in 1..Len(Digits) : Digits[d] = c

DigitVal(c) == (CHOOSE d \in 1..Len(Digits) : Digits[d] = c) - 1

\* strconv.ParseUint(s, 10, bits): ok is FALSE on a syntax or range error
RECURSIVE ParseDigits(_, _, _)
ParseDigits(s, acc, max) ==
    IF s = <<>> THEN [ok |-> TRUE, val |-> acc]
    ELSE IF ~IsDigit(Head(s)) THEN [ok |-> FALSE, val |-> 0]
    ELSE LET next == acc * 10 + DigitVal(Head(s))
         IN  IF next > max THEN [ok |-> FALSE, val |-> max]
             ELSE ParseDigits(Tail(s), next, max)

ParseUint(s, bits) ==
    IF s = <<>> THEN [ok |-> FALSE, val |-> 0]
    ELSE ParseDigits(s, 0, 2 ^ bits - 1)

\* faulty variant: the default is the port of plain HTTP
DefaultPortHTTP == <<"8", "0">>

DefaultPort == <<"4", "4", "3">>

TargetErr == [ok |-> FALSE, addr |-> <<>>]

TargetOk(a) == [ok |-> TRUE, addr |-> a]

\* faulty variant: port 0 is let through
connectTargetZeroPort(raw) ==
    LET hostport == TrimSpace(raw)
        sp == SplitHostPort(hostport)
        p == ParseUint(sp.port, 16)
    IN  IF hostport = <<>> THEN TargetErr
        ELSE IF ContainsAny(hostport, {" ", "/", "\\"}) THEN TargetErr
        ELSE IF sp.err = ""
            THEN IF TrimSpace(sp.host) = <<>> THEN TargetErr
                 ELSE IF ~p.ok THEN TargetErr
                 ELSE TargetOk(JoinHostPort(sp.host, sp.port))
        ELSE IF Count(hostport, ":") >= 2 /\ ~HasPrefix(hostport, "[")
            THEN TargetOk(JoinHostPort(hostport, DefaultPort))
        ELSE IF sp.err = ErrMissingPort
            THEN TargetOk(JoinHostPort(hostport, DefaultPort))
        ELSE TargetErr

\* faulty variant: host and port are glued with a colon, without JoinHostPort
connectTargetPlainJoin(raw) ==
    LET hostport == TrimSpace(raw)
        sp == SplitHostPort(hostport)
        p == ParseUint(sp.port, 16)
    IN  IF hostport = <<>> THEN TargetErr
        ELSE IF ContainsAny(hostport, {" ", "/", "\\"}) THEN TargetErr
        ELSE IF sp.err = ""
            THEN IF TrimSpace(sp.host) = <<>> THEN TargetErr
                 ELSE IF ~p.ok \/ p.val = 0 THEN TargetErr
                 ELSE TargetOk(sp.host \o <<":">> \o sp.port)
        ELSE IF Count(hostport, ":") >= 2 /\ ~HasPrefix(hostport, "[")
            THEN TargetOk(JoinHostPort(hostport, DefaultPort))
        ELSE IF sp.err = ErrMissingPort
            THEN TargetOk(JoinHostPort(hostport, DefaultPort))
        ELSE TargetErr

\* faulty variant: the test for a space, '/' or '\' is missing
connectTargetNoPathCheck(raw) ==
    LET hostport == TrimSpace(raw)
        sp == SplitHostPort(hostport)
        p == ParseUint(sp.port, 16)
    IN  IF hostport = <<>> THEN TargetErr
        ELSE IF sp.err = ""
            THEN IF TrimSpace(sp.host) = <<>> THEN TargetErr
                 ELSE IF ~p.ok \/ p.val = 0 THEN TargetErr
                 ELSE TargetOk(JoinHostPort(sp.host, sp.port))
        ELSE IF Count(hostport, ":") >= 2 /\ ~HasPrefix(hostport, "[")
            THEN TargetOk(JoinHostPort(hostport, DefaultPort))
        ELSE IF sp.err = ErrMissingPort
            THEN TargetOk(JoinHostPort(hostport, DefaultPort))
        ELSE TargetErr

\* faulty variant: every target that does not split gets the default port
connectTargetDefaultsAll(raw) ==
    LET hostport == TrimSpace(raw)
        sp == SplitHostPort(hostport)
        p == ParseUint(sp.port, 16)
    IN  IF hostport = <<>> THEN TargetErr
        ELSE IF ContainsAny(hostport, {" ", "/", "\\"}) THEN TargetErr
        ELSE IF sp.err = ""
            THEN IF TrimSpace(sp.host) = <<>> THEN TargetErr
                 ELSE IF ~p.ok \/ p.val = 0 THEN TargetErr
                 ELSE TargetOk(JoinHostPort(sp.host, sp.port))
        ELSE TargetOk(JoinHostPort(hostport, DefaultPort))

\* connectTarget: the dialable host:port of a CONNECT authority, or an error
connectTarget(raw) ==
    LET hostport == TrimSpace(raw)
        sp == SplitHostPort(hostport)
        p == ParseUint(sp.port, 16)
    IN  IF hostport = <<>> THEN TargetErr
        ELSE IF ContainsAny(hostport, {" ", "/", "\\"}) THEN TargetErr
        ELSE IF sp.err = ""
            THEN IF TrimSpace(sp.host) = <<>> THEN TargetErr
                 ELSE IF ~p.ok \/ p.val = 0 THEN TargetErr
                 ELSE TargetOk(JoinHostPort(sp.host, sp.port))
        ELSE IF Count(hostport, ":") >= 2 /\ ~HasPrefix(hostport, "[")
            THEN TargetOk(JoinHostPort(hostport, DefaultPort))
        ELSE IF sp.err = ErrMissingPort
            THEN TargetOk(JoinHostPort(hostport, DefaultPort))
        ELSE TargetErr

\* HTTP status codes written by handleHTTPConnect
StatusOK == 200
StatusBadRequest == 400
StatusMethodNotAllowed == 405
StatusRequestHeaderFieldsTooLarge == 431
StatusBadGateway == 502

\* writeHTTPError: one HTTP/1.1 response, Connection: close, with a text body
writeHTTPError(code, body) ==
    Tok("response", <<"Connection: close", body>>, code)

\* faulty variant: the 200 is written as a full response, with headers and a body
ConnectionEstablishedResponse == writeHTTPError(StatusOK, "")

\* the literal "HTTP/1.1 200 Connection Established\r\n\r\n": no header, no body
ConnectionEstablished == Tok("response", <<>>, StatusOK)

\* io.Copy's buffer (32 KiB), in tokens: eight bufio buffers
CopyBufSize == BufSize * 8

(* ------------------------------- state --------------------------------- *)
VARIABLES
    cSent,      \* every token the client has written, in order
    cPos,       \* how many of them the proxy has read from the connection
    cEOF,       \* the client has closed its side
    tSent,      \* every token the target has written
    tPos,       \* how many of them the proxy has read from the target
    tEOF,       \* the target has closed its side
    deadline,   \* per stream ("c", "t"): [set, left], left in ticks
    closes,     \* per stream: how many times the proxy called Close
    pc,         \* where the handling task (handleConn/handleHTTPConnect) is
    route,      \* "", "socks5" or "http": the dispatcher's decision
    firstRead,  \* <<>> or the first token the chosen handler read
    brBuf,      \* unread tokens in the dispatcher's bufio.Reader
    lrN,        \* io.LimitedReader.N: the remaining request quota
    pst,        \* http.ReadRequest: what the parser expects next
    req,        \* the parsed request: [method, host]
    rdErr,      \* "" or why http.ReadRequest failed
    lost,       \* tokens left in ReadRequest's own bufio.Reader
    dial,       \* "none", "failed" or "ok"
    dialAddr,   \* the address given to net.DialTimeout
    cRecv,      \* everything the proxy wrote to the client stream
    tRecv,      \* everything the proxy wrote to the target stream
    task,       \* relay tasks "a" (client->target), "b" (target->client)
    estSent,    \* Len(cSent) when the 200 reply was written
    idle,       \* ticks since the last relay read or write
    silent      \* per relay task: ticks spent in Read since its last chunk

\* the accept loop (serve) and its handling tasks
VARIABLES
    srv,        \* where serve is: "accept", "backoff", "drain" or "stopped"
    retryDelay, \* serve's retryDelay, in milliseconds
    delays,     \* the delays of the current run of consecutive failures
    active,     \* the counter of the sync.WaitGroup `active`
    hs,         \* per connection: "none", "running" or how its task ended
    ctxDone,    \* the context passed to serve is cancelled
    lnClosed,   \* the listener is closed
    waiter,     \* waitForWaitGroup's goroutine: "none", "waiting", "closed"
    drainLeft,  \* ticks left of shutdownDrainTimeout
    lastErr     \* the error of the last failed Accept, NoErr otherwise

\* one call of connectTarget
VARIABLES
    tgtIn,      \* the argument
    tgtOut      \* NoResult, or what connectTarget returned

srvVars == <<srv, retryDelay, delays, active, hs, ctxDone, lnClosed, waiter,
             drainLeft, lastErr>>
tgtVars == <<tgtIn, tgtOut>>

connVars == <<cSent, cPos, cEOF, tSent, tPos, tEOF, deadline, closes, pc, route,
              firstRead, brBuf, lrN, pst, req, rdErr, lost, dial, dialAddr,
              cRecv, tRecv, task, estSent, idle, silent>>

vars == <<connVars, srvVars, tgtVars>>

\* what the handling of one connection never touches
outerVars == <<srvVars, tgtVars>>

envVars == <<cSent, cEOF, tSent, tEOF>>
reqVars == <<lrN, pst, req, rdErr, lost>>
tunVars == <<dial, dialAddr, tRecv, task, estSent, idle, silent>>

NoDeadline == [set |-> FALSE, left |-> 0]
Armed(n) == [set |-> TRUE, left |-> n]
Expired(s) == deadline[s].set /\ deadline[s].left = 0

NoReq == [method |-> <<>>, host |-> <<>>]

\* the connections the listener can hand out
Conns == 1..MaxConns

\* Accept did not fail
NoErr == [kind |-> "none"]

\* serve before its first Accept: retryDelay is zero, the WaitGroup is empty
ServeInit ==
    /\ srv = "accept"
    /\ retryDelay = 0
    /\ delays = <<>>
    /\ active = 0
    /\ hs = [i \in Conns |-> "none"]
    /\ ctxDone = FALSE
    /\ lnClosed = FALSE
    /\ waiter = "none"
    /\ drainLeft = 0
    /\ lastErr = NoErr

\* connectTarget has not been called
NoResult == [ok |-> FALSE, addr |-> <<"-">>]

TargetIdle == tgtIn = <<>> /\ tgtOut = NoResult

\* one accepted connection as handleConn first sees it
ConnInit ==
    /\ cSent = <<>> /\ cPos = 0 /\ cEOF = FALSE
    /\ tSent = <<>> /\ tPos = 0 /\ tEOF = FALSE
    \* handleConn has set the peek deadline and made the bufio.Reader
    /\ deadline = [c |-> Armed(PeekTicks), t |-> NoDeadline]
    /\ closes = [c |-> 0, t |-> 0]
    /\ pc = "peek"
    /\ route = ""
    /\ firstRead = <<>>
    /\ brBuf = <<>>
    /\ lrN = 0
    /\ pst = "method"
    /\ req = NoReq
    /\ rdErr = ""
    /\ lost = <<>>
    /\ dial = "none"
    /\ dialAddr = <<>>
    /\ cRecv = <<>>
    /\ tRecv = <<>>
    /\ task = [a |-> "idle", b |-> "idle"]
    /\ estSent = 0
    /\ idle = 0
    /\ silent = [a |-> 0, b |-> 0]

Init == ConnInit /\ ServeInit /\ TargetIdle

(* --------------------------- stream reads ------------------------------ *)
Sent(s) == IF s = "c" THEN cSent ELSE tSent
Pos(s) == IF s = "c" THEN cPos ELSE tPos
PeerClosed(s) == IF s = "c" THEN cEOF ELSE tEOF
Avail(s) == SubSeq(Sent(s), Pos(s) + 1, Len(Sent(s)))

\* net.Conn.Read into a buffer of n tokens: a closed stream and an expired
\* deadline fail before any data is looked at; "block" means the call waits.
ConnRead(s, n) ==
    IF closes[s] > 0 THEN [res |-> "closed", data |-> <<>>]
    ELSE IF Expired(s) THEN [res |-> "timeout", data |-> <<>>]
    ELSE IF Avail(s) # <<>> THEN [res |-> "data", data |-> Take(Avail(s), n)]
    ELSE IF PeerClosed(s) THEN [res |-> "eof", data |-> <<>>]
    ELSE [res |-> "block", data |-> <<>>]

\* bufio.Reader.Read(p), len(p) = n, on the dispatcher's reader: buffered
\* tokens first; otherwise one read of the connection, straight into p when
\* p is at least as large as the buffer.  taken: tokens read off the stream.
BrRead(n) ==
    IF brBuf # <<>>
    THEN [res |-> "data", data |-> Take(brBuf, n), buf |-> Drop(brBuf, n), taken |-> 0]
    ELSE LET r == ConnRead("c", IF n >= BufSize THEN n ELSE BufSize)
         IN  [res |-> r.res, data |-> Take(r.data, n), buf |-> Drop(r.data, n),
              taken |-> Len(r.data)]

\* faulty variant: Read is left to the embedded net.Conn, past the buffer
peekedConnReadDirect(n) ==
    LET r == ConnRead("c", n)
    IN  [res |-> r.res, data |-> r.data, buf |-> brBuf, taken |-> Len(r.data)]

\* peekedConn.Read: reads go through the bufio.Reader
peekedConnRead(n) == BrRead(n)

\* io.LimitedReader.Read as called by the fill of ReadRequest's bufio.Reader
LimitedRead ==
    IF lrN <= 0
    THEN [res |-> "capeof", data |-> <<>>, buf |-> brBuf, taken |-> 0]
    ELSE BrRead(Min(BufSize, lrN))

(* ------------------------- http.ReadRequest ---------------------------- *)
\* The parser over the tokens of one fill: request line (method, target),
\* header lines, blank line.  rest: what it did not consume.
RECURSIVE ParseHead(_, _, _)
ParseHead(st, rq, toks) ==
    IF st = "done" \/ toks = <<>>
    THEN [st |-> st, req |-> rq, err |-> "", rest |-> toks]
    ELSE LET b == Head(toks)
         IN  IF st = "method" /\ b.k = "method"
             THEN ParseHead("target", [rq EXCEPT !.method = b.v], Tail(toks))
             ELSE IF st = "target" /\ b.k = "target"
             THEN ParseHead("headers", [rq EXCEPT !.host = b.v], Tail(toks))
             ELSE IF st = "headers" /\ b.k = "hdr"
             THEN ParseHead("headers", rq, Tail(toks))
             ELSE IF st = "headers" /\ b.k = "end"
             THEN ParseHead("done", rq, Tail(toks))
             ELSE [st |-> st, req |-> rq, err |-> "malformed", rest |-> Tail(toks)]

\* faulty variant: the quota test is off by one
classifyReadRequestErrorStrict(n, err) ==
    IF n < 0 THEN StatusRequestHeaderFieldsTooLarge
    ELSE IF err = "bufferfull" THEN StatusRequestHeaderFieldsTooLarge
    ELSE StatusBadRequest

\* classifyReadRequestError; bufio.ErrBufferFull never leaves ReadRequest
classifyReadRequestError(n, err) ==
    IF n <= 0 THEN StatusRequestHeaderFieldsTooLarge
    ELSE IF err = "bufferfull" THEN StatusRequestHeaderFieldsTooLarge
    ELSE StatusBadRequest

\* faulty variant: the marker of SOCKS4 is tested instead
isSOCKS4(firstByte) == firstByte = Tok("byte", <<>>, 4)

isSOCKS5(firstByte) == firstByte = SocksVersion

(* --------------------------- the client -------------------------------- *)
NextClientToks ==
    IF cSent = <<>>
    THEN {SocksVersion, MethodTok(MethodConnect), MethodTok(MethodGet), JunkTok}
    ELSE LET last == cSent[Len(cSent)]
         IN  IF last.k = "method" THEN {TargetTok(t) : t \in SampleTargets}
             ELSE IF last.k \in {"target", "hdr"}
             THEN IF Len(cSent) <= ReqCap THEN {HeaderTok, EndTok, JunkTok} ELSE {}
             ELSE IF last.k \in {"byte", "end"} THEN {ClientByte(1)}
             ELSE IF last.k = "data" /\ last.n < MaxPayload
             THEN {ClientByte(last.n + 1)}
             ELSE {}

ClientSend ==
    /\ pc # "done" /\ ~cEOF
    /\ \E b \in NextClientToks : cSent' = Append(cSent, b)
    /\ UNCHANGED <<cPos, cEOF, tSent, tPos, tEOF, deadline, closes, pc, route,
                   firstRead, brBuf, reqVars, dial, dialAddr, cRecv, tRecv,
                   task, estSent, idle, silent>>
    /\ UNCHANGED outerVars

ClientClose ==
    /\ pc # "done" /\ ~cEOF
    /\ cEOF' = TRUE
    /\ UNCHANGED <<cSent, cPos, tSent, tPos, tEOF, deadline, closes, pc, route,
                   firstRead, brBuf, reqVars, dial, dialAddr, cRecv, tRecv,
                   task, estSent, idle, silent>>
    /\ UNCHANGED outerVars

TargetSend ==
    /\ pc # "done" /\ dial = "ok" /\ ~tEOF
    /\ Len(tSent) < MaxTargetBytes
    /\ tSent' = Append(tSent, TargetByte(Len(tSent) + 1))
    /\ UNCHANGED <<cSent, cPos, cEOF, tPos, tEOF, deadline, closes, pc, route,
                   firstRead, brBuf, reqVars, dial, dialAddr, cRecv, tRecv,
                   task, estSent, idle, silent>>
    /\ UNCHANGED outerVars

TargetClose ==
    /\ pc # "done" /\ dial = "ok" /\ ~tEOF
    /\ tEOF' = TRUE
    /\ UNCHANGED <<cSent, cPos, cEOF, tSent, tPos, deadline, closes, pc, route,
                   firstRead, brBuf, reqVars, dial, dialAddr, cRecv, tRecv,
                   task, estSent, idle, silent>>
    /\ UNCHANGED outerVars

(* ------------------- handleConn: the protocol peek --------------------- *)
\* bufio.Reader.Peek(1) after a fill that read `data`: the first token is
\* returned and every token read stays in the buffer.
Peek(data) == [first |-> data[1], buf |-> data]

Close(cl, s) == [cl EXCEPT ![s] = @ + 1]

\* the fill behind Peek(1): one read of the connection into the empty buffer
PeekFill == ConnRead("c", BufSize)

\* faulty variant: a failed peek is answered with a 400
PeekFailBadRequest ==
    /\ pc = "peek"
    /\ PeekFill.res \in {"timeout", "eof", "closed"}
    /\ cRecv' = Append(cRecv, writeHTTPError(StatusBadRequest, "malformed request\n"))
    /\ closes' = Close(closes, "c")
    /\ pc' = "done"
    /\ UNCHANGED <<envVars, cPos, tPos, deadline, route, firstRead, brBuf,
                   reqVars, tunVars>>
    /\ UNCHANGED outerVars

\* peek failed: deferred conn.Close, nothing written, no handler invoked
PeekFail ==
    /\ pc = "peek"
    /\ PeekFill.res \in {"timeout", "eof", "closed"}
    /\ closes' = Close(closes, "c")
    /\ pc' = "done"
    /\ UNCHANGED <<envVars, cPos, tPos, deadline, route, firstRead, brBuf,
                   reqVars, cRecv, tunVars>>
    /\ UNCHANGED outerVars

\* first byte 0x05: deadline cleared, socksServer.ServeConn(peekConn)
RouteSOCKS5 ==
    /\ pc = "peek"
    /\ PeekFill.res = "data"
    /\ isSOCKS5(Peek(PeekFill.data).first)
    /\ brBuf' = Peek(PeekFill.data).buf
    /\ cPos' = cPos + Len(PeekFill.data)
    /\ deadline' = [deadline EXCEPT !["c"] = NoDeadline]
    /\ route' = "socks5"
    /\ pc' = "socks"
    /\ UNCHANGED <<envVars, tPos, closes, firstRead, reqVars, cRecv, tunVars>>
    /\ UNCHANGED outerVars

\* any other first byte: handleHTTPConnect(peekConn, peekConn.Reader), which
\* sets the request-read deadline and the LimitedReader's quota
RouteHTTP ==
    /\ pc = "peek"
    /\ PeekFill.res = "data"
    /\ ~isSOCKS5(Peek(PeekFill.data).first)
    /\ brBuf' = Peek(PeekFill.data).buf
    /\ cPos' = cPos + Len(PeekFill.data)
    /\ deadline' = [deadline EXCEPT !["c"] = Armed(ReadTicks)]
    /\ route' = "http"
    /\ lrN' = ReqCap
    /\ pc' = "readreq"
    /\ UNCHANGED <<envVars, tPos, closes, firstRead, pst, req, rdErr, lost,
                   cRecv, tunVars>>
    /\ UNCHANGED outerVars

(* ----------------------- the SOCKS5 engine (external) ------------------ *)
\* the engine's first Read on the peeked stream
SocksRead ==
    /\ pc = "socks" /\ firstRead = <<>>
    /\ LET r == peekedConnRead(BufSize)
       IN  /\ r.res = "data"
           /\ firstRead' = <<r.data[1]>>
           /\ brBuf' = r.buf
           /\ cPos' = cPos + r.taken
    /\ UNCHANGED <<envVars, tPos, deadline, closes, pc, route, reqVars, cRecv,
                   tunVars>>
    /\ UNCHANGED outerVars

\* faulty variant: ServeConn returns and the connection is left open
SocksReturnNoClose ==
    /\ pc = "socks"
    /\ pc' = "done"
    /\ UNCHANGED <<envVars, cPos, tPos, deadline, closes, route, firstRead,
                   brBuf, reqVars, cRecv, tunVars>>
    /\ UNCHANGED outerVars

\* ServeConn returns; handleConn's deferred conn.Close
SocksReturn ==
    /\ pc = "socks"
    /\ closes' = Close(closes, "c")
    /\ pc' = "done"
    /\ UNCHANGED <<envVars, cPos, tPos, deadline, route, firstRead, brBuf,
                   reqVars, cRecv, tunVars>>
    /\ UNCHANGED outerVars

(* ------------------------- handleHTTPConnect --------------------------- *)
\* One fill of ReadRequest's bufio.Reader through the LimitedReader, and the
\* parse of what it read.  When ReadRequest returns, the deadline is cleared.
HttpReadRequest ==
    /\ pc = "readreq"
    /\ LET f == LimitedRead
           p == ParseHead(pst, req, f.data)
           err == IF f.res = "data" THEN p.err
                  ELSE IF f.res = "capeof" THEN "cap"
                  ELSE f.res
           over == err # "" \/ p.st = "done"
       IN  /\ f.res # "block"
           /\ brBuf' = f.buf
           /\ cPos' = cPos + f.taken
           /\ lrN' = lrN - Len(f.data)
           /\ firstRead' = IF firstRead = <<>> /\ f.data # <<>>
                           THEN <<f.data[1]>> ELSE firstRead
           /\ rdErr' = err
           /\ pst' = IF f.res = "data" THEN p.st ELSE pst
           /\ req' = IF f.res = "data" THEN p.req ELSE req
           /\ lost' = IF f.res = "data" /\ p.st = "done" THEN p.rest ELSE lost
           /\ pc' = IF over THEN "afterread" ELSE pc
           /\ deadline' = IF over THEN [deadline EXCEPT !["c"] = NoDeadline]
                          ELSE deadline
    /\ UNCHANGED <<envVars, tPos, closes, route, cRecv, tunVars>>
    /\ UNCHANGED outerVars

\* faulty variant: the 400 is written whatever the status, after a 431 too
HttpReadErrorBoth ==
    /\ pc = "afterread" /\ rdErr # ""
    /\ cRecv' = cRecv \o
            (IF classifyReadRequestError(lrN, rdErr) = StatusRequestHeaderFieldsTooLarge
             THEN <<writeHTTPError(StatusRequestHeaderFieldsTooLarge, "request too large\n")>>
             ELSE <<>>) \o
            <<writeHTTPError(StatusBadRequest, "malformed request\n")>>
    /\ closes' = Close(closes, "c")
    /\ pc' = "done"
    /\ UNCHANGED <<envVars, cPos, tPos, deadline, route, firstRead, brBuf,
                   reqVars, tunVars>>
    /\ UNCHANGED outerVars

\* ReadRequest failed: 431 or 400, then return (deferred conn.Close)
HttpReadError ==
    /\ pc = "afterread" /\ rdErr # ""
    /\ cRecv' = Append(cRecv,
            IF classifyReadRequestError(lrN, rdErr) = StatusRequestHeaderFieldsTooLarge
            THEN writeHTTPError(StatusRequestHeaderFieldsTooLarge, "request too large\n")
            ELSE writeHTTPError(StatusBadRequest, "malformed request\n"))
    /\ closes' = Close(closes, "c")
    /\ pc' = "done"
    /\ UNCHANGED <<envVars, cPos, tPos, deadline, route, firstRead, brBuf,
                   reqVars, tunVars>>
    /\ UNCHANGED outerVars

HttpMethodNotAllowed ==
    /\ pc = "afterread" /\ rdErr = ""
    /\ req.method # MethodConnect
    /\ cRecv' = Append(cRecv, writeHTTPError(StatusMethodNotAllowed, "CONNECT required\n"))
    /\ closes' = Close(closes, "c")
    /\ pc' = "done"
    /\ UNCHANGED <<envVars, cPos, tPos, deadline, route, firstRead, brBuf,
                   reqVars, tunVars>>
    /\ UNCHANGED outerVars

\* faulty variant: the target is resolved before the method is looked at
HttpBadTargetAnyMethod ==
    /\ pc = "afterread" /\ rdErr = ""
    /\ ~connectTarget(req.host).ok
    /\ cRecv' = Append(cRecv, writeHTTPError(StatusBadRequest, "invalid CONNECT host\n"))
    /\ closes' = Close(closes, "c")
    /\ pc' = "done"
    /\ UNCHANGED <<envVars, cPos, tPos, deadline, route, firstRead, brBuf,
                   reqVars, tunVars>>
    /\ UNCHANGED outerVars

HttpBadTarget ==
    /\ pc = "afterread" /\ rdErr = ""
    /\ req.method = MethodConnect
    /\ ~connectTarget(req.host).ok
    /\ cRecv' = Append(cRecv, writeHTTPError(StatusBadRequest, "invalid CONNECT host\n"))
    /\ closes' = Close(closes, "c")
    /\ pc' = "done"
    /\ UNCHANGED <<envVars, cPos, tPos, deadline, route, firstRead, brBuf,
                   reqVars, tunVars>>
    /\ UNCHANGED outerVars

\* faulty variant: the return after the 502 is missing
HttpDialFailNoReturn ==
    /\ pc = "afterread" /\ rdErr = ""
    /\ req.method = MethodConnect
    /\ connectTarget(req.host).ok
    /\ dialAddr' = connectTarget(req.host).addr
    /\ dial' = "failed"
    /\ cRecv' = Append(cRecv, writeHTTPError(StatusBadGateway, "dial failed\n"))
    /\ pc' = "reply"
    /\ UNCHANGED <<envVars, cPos, tPos, deadline, closes, route, firstRead,
                   brBuf, reqVars, tRecv, task, estSent, idle, silent>>
    /\ UNCHANGED outerVars

\* net.DialTimeout fails: 502, return
HttpDialFail ==
    /\ pc = "afterread" /\ rdErr = ""
    /\ req.method = MethodConnect
    /\ connectTarget(req.host).ok
    /\ dialAddr' = connectTarget(req.host).addr
    /\ dial' = "failed"
    /\ cRecv' = Append(cRecv, writeHTTPError(StatusBadGateway, "dial failed\n"))
    /\ closes' = Close(closes, "c")
    /\ pc' = "done"
    /\ UNCHANGED <<envVars, cPos, tPos, deadline, route, firstRead, brBuf,
                   reqVars, tRecv, task, estSent, idle, silent>>
    /\ UNCHANGED outerVars

\* faulty variant: the relay is set up without the 200 having been written
HttpDialOKNoReply ==
    /\ pc = "afterread" /\ rdErr = ""
    /\ req.method = MethodConnect
    /\ connectTarget(req.host).ok
    /\ dialAddr' = connectTarget(req.host).addr
    /\ dial' = "ok"
    /\ estSent' = Len(cSent)
    /\ pc' = "spawn"
    /\ UNCHANGED <<envVars, cPos, tPos, deadline, closes, route, firstRead,
                   brBuf, reqVars, cRecv, tRecv, task, idle, silent>>
    /\ UNCHANGED outerVars

\* net.DialTimeout succeeds
HttpDialOK ==
    /\ pc = "afterread" /\ rdErr = ""
    /\ req.method = MethodConnect
    /\ connectTarget(req.host).ok
    /\ dialAddr' = connectTarget(req.host).addr
    /\ dial' = "ok"
    /\ pc' = "reply"
    /\ UNCHANGED <<envVars, cPos, tPos, deadline, closes, route, firstRead,
                   brBuf, reqVars, cRecv, tRecv, task, estSent, idle, silent>>
    /\ UNCHANGED outerVars

\* fmt.Fprint(conn, "HTTP/1.1 200 Connection Established\r\n\r\n")
HttpReply200 ==
    /\ pc = "reply"
    /\ cRecv' = Append(cRecv, ConnectionEstablished)
    /\ estSent' = Len(cSent)
    /\ pc' = "spawn"
    /\ UNCHANGED <<envVars, cPos, tPos, deadline, closes, route, firstRead,
                   brBuf, reqVars, dial, dialAddr, tRecv, task, idle, silent>>
    /\ UNCHANGED outerVars

\* faulty variant: Read delegates without setting the deadline
idleTimeoutConnReadNoDeadline(d, s) == d

\* idleTimeoutConn.Read / Write: SetDeadline(now + timeout) on the stream,
\* then the call itself
idleTimeoutConnRead(d, s) == [d EXCEPT ![s] = Armed(IdleTicks)]

\* faulty variant: Write removes the deadline instead of moving it
idleTimeoutConnWriteClears(d, s) == [d EXCEPT ![s] = NoDeadline]

\* faulty variant: Write delegates without moving the deadline
idleTimeoutConnWriteNoDeadline(d, s) == d

idleTimeoutConnWrite(d, s) == [d EXCEPT ![s] = Armed(IdleTicks)]

\* wg.Go twice: each task enters io.Copy and makes its first Read call
HttpSpawn ==
    /\ pc = "spawn"
    /\ task' = [a |-> "reading", b |-> "reading"]
    /\ deadline' = idleTimeoutConnRead(idleTimeoutConnRead(deadline, "c"), "t")
    /\ idle' = 0
    /\ silent' = [a |-> 0, b |-> 0]
    /\ pc' = "wait"
    /\ UNCHANGED <<envVars, cPos, tPos, closes, route, firstRead, brBuf,
                   reqVars, dial, dialAddr, cRecv, tRecv, estSent>>
    /\ UNCHANGED outerVars

\* faulty variant: the first byte of every chunk is dropped
CopyChunkShort(chunk) == Tail(chunk)

\* what io.Copy writes to its destination for a chunk it read
CopyChunk(chunk) == chunk

\* faulty variant: the task returns without closing its destination
RelayDoneNoClose(cl, dst) == cl

\* a relay task after io.Copy has returned: it closes its destination
RelayDone(cl, dst) == Close(cl, dst)

\* the pending Read of each relay task
ReadA == peekedConnRead(CopyBufSize)
ReadB == ConnRead("t", CopyBufSize)

\* client -> target: a chunk is read and written, and Read is called again
RelayA_Copy ==
    /\ task.a = "reading"
    /\ ReadA.res = "data"
    /\ brBuf' = ReadA.buf
    /\ cPos' = cPos + ReadA.taken
    /\ tRecv' = tRecv \o CopyChunk(ReadA.data)
    /\ deadline' = idleTimeoutConnRead(idleTimeoutConnWrite(deadline, "t"), "c")
    /\ idle' = 0
    /\ silent' = [silent EXCEPT !.a = 0]
    /\ UNCHANGED <<envVars, tPos, closes, pc, route, firstRead, reqVars, dial,
                   dialAddr, cRecv, task, estSent>>
    /\ UNCHANGED outerVars

\* client -> target: Read fails (EOF, timeout, closed); target.Close()
RelayA_End ==
    /\ task.a = "reading"
    /\ ReadA.res \in {"eof", "timeout", "closed"}
    /\ closes' = RelayDone(closes, "t")
    /\ task' = [task EXCEPT !.a = "done"]
    /\ UNCHANGED <<envVars, cPos, tPos, deadline, pc, route, firstRead, brBuf,
                   reqVars, dial, dialAddr, cRecv, tRecv, estSent, idle, silent>>
    /\ UNCHANGED outerVars

\* target -> client
RelayB_Copy ==
    /\ task.b = "reading"
    /\ ReadB.res = "data"
    /\ tPos' = tPos + Len(ReadB.data)
    /\ cRecv' = cRecv \o CopyChunk(ReadB.data)
    /\ deadline' = idleTimeoutConnRead(idleTimeoutConnWrite(deadline, "c"), "t")
    /\ idle' = 0
    /\ silent' = [silent EXCEPT !.b = 0]
    /\ UNCHANGED <<envVars, cPos, closes, pc, route, firstRead, brBuf, reqVars,
                   dial, dialAddr, tRecv, task, estSent>>
    /\ UNCHANGED outerVars

\* target -> client: Read fails; conn.Close()
RelayB_End ==
    /\ task.b = "reading"
    /\ ReadB.res \in {"eof", "timeout", "closed"}
    /\ closes' = RelayDone(closes, "c")
    /\ task' = [task EXCEPT !.b = "done"]
    /\ UNCHANGED <<envVars, cPos, tPos, deadline, pc, route, firstRead, brBuf,
                   reqVars, dial, dialAddr, cRecv, tRecv, estSent, idle, silent>>
    /\ UNCHANGED outerVars

\* faulty variant: the handler waits for the first task only
WaitDoneFirst == task.a = "done" \/ task.b = "done"

\* wg.Wait
WaitDone == task.a = "done" /\ task.b = "done"

\* faulty variant: the handler returns without the deferred closes
HttpReturnNoDefer ==
    /\ pc = "wait"
    /\ WaitDone
    /\ pc' = "done"
    /\ UNCHANGED <<envVars, cPos, tPos, deadline, closes, route, firstRead,
                   brBuf, reqVars, dial, dialAddr, cRecv, tRecv, task, estSent,
                   idle, silent>>
    /\ UNCHANGED outerVars

\* wg.Wait returns; the deferred target.Close and conn.Close run
HttpReturn ==
    /\ pc = "wait"
    /\ WaitDone
    /\ closes' = Close(Close(closes, "t"), "c")
    /\ pc' = "done"
    /\ UNCHANGED <<envVars, cPos, tPos, deadline, route, firstRead, brBuf,
                   reqVars, dial, dialAddr, cRecv, tRecv, task, estSent, idle, silent>>
    /\ UNCHANGED outerVars

(* -------------------------------- time --------------------------------- *)
\* some task of the proxy can take a step without waiting
ProxyReady ==
    \/ pc \in {"afterread", "reply", "spawn"}
    \/ pc = "peek" /\ PeekFill.res # "block"
    \/ pc = "readreq" /\ LimitedRead.res # "block"
    \/ pc = "wait" /\ WaitDone
    \/ task.a = "reading" /\ ReadA.res # "block"
    \/ task.b = "reading" /\ ReadB.res # "block"

TickDeadline(d) ==
    IF d.set /\ d.left > 0 THEN [d EXCEPT !.left = @ - 1] ELSE d

Tick ==
    /\ pc # "done"
    /\ ~ProxyReady
    /\ deadline' = [s \in {"c", "t"} |-> TickDeadline(deadline[s])]
    /\ idle' = IF pc = "wait" THEN Min(idle + 1, IdleTicks + 1) ELSE idle
    /\ silent' = IF pc = "wait"
                 THEN [d \in {"a", "b"} |->
                         IF task[d] = "reading" THEN Min(silent[d] + 1, IdleTicks)
                         ELSE silent[d]]
                 ELSE silent
    /\ <<deadline', idle'>> # <<deadline, idle, silent>>
    /\ UNCHANGED <<envVars, cPos, tPos, closes, pc, route, firstRead, brBuf,
                   reqVars, dial, dialAddr, cRecv, tRecv, task, estSent>>
    /\ UNCHANGED outerVars

(* ---------------------- serve: the accept loop ------------------------- *)
\* maxAcceptRetryDelay and the first delay of nextRetryDelay, in milliseconds
maxAcceptRetryDelay == 1000
FirstRetryDelay == 50

\* how a handling task can end
ExitPaths == {"failed", "finished"}

\* the errors Accept can return, by what serve's tests see of them:
\* errors.Is(err, net.ErrClosed), errors.Is(err, syscall.ECONNABORTED), the
\* methods Temporary() and Timeout() the error has, and what they report
AcceptErrs ==
    {e \in [kind : {"err"}, closed : BOOLEAN, aborted : BOOLEAN,
            hasTemporary : BOOLEAN, temporary : BOOLEAN,
            hasTimeout : BOOLEAN, timeout : BOOLEAN] :
        (e.temporary => e.hasTemporary) /\ (e.timeout => e.hasTimeout)}

\* err.(net.Error): the interface asks for both Timeout() and Temporary()
IsNetError(e) == e.hasTimeout /\ e.hasTemporary

\* faulty variant: any error with a true Timeout() counts, net.Error or not
isTemporaryAcceptErrorAnyTimeout(err) ==
    IF err = NoErr THEN FALSE
    ELSE IF err.aborted THEN TRUE
    ELSE IF err.hasTemporary /\ err.temporary THEN TRUE
    ELSE IF err.hasTimeout /\ err.timeout THEN TRUE
    ELSE FALSE

isTemporaryAcceptError(err) ==
    IF err = NoErr THEN FALSE
    ELSE IF err.aborted THEN TRUE
    ELSE IF err.hasTemporary /\ err.temporary THEN TRUE
    ELSE IF IsNetError(err) /\ err.timeout THEN TRUE
    ELSE FALSE

\* faulty variant: the doubled delay is returned without the ceiling test
nextRetryDelayNoCeiling(current) ==
    IF current <= 0 THEN FirstRetryDelay ELSE current * 2

nextRetryDelay(current) ==
    IF current <= 0 THEN FirstRetryDelay
    ELSE LET next == current * 2
         IN  IF next > maxAcceptRetryDelay THEN maxAcceptRetryDelay ELSE next

\* the tests serve makes on a failed Accept, in the order it makes them
AcceptFailure(err) ==
    IF err.closed THEN "closed"
    ELSE IF isTemporaryAcceptError(err) THEN "retry"
    ELSE "fatal"

\* serve returns: the deferred waitForWaitGroup starts its goroutine and timer
DrainBegin ==
    /\ srv' = "drain"
    /\ waiter' = "waiting"
    /\ drainLeft' = DrainTicks

\* faulty variant: a successful accept leaves the retry delay as it was
AcceptConnKeepDelay(i) ==
    /\ srv = "accept" /\ ~lnClosed
    /\ hs[i] = "none" /\ \A j \in 1..(i - 1) : hs[j] # "none"
    /\ active' = active + 1
    /\ hs' = [hs EXCEPT ![i] = "running"]
    /\ lastErr' = NoErr
    /\ UNCHANGED <<srv, retryDelay, delays, ctxDone, lnClosed, waiter, drainLeft>>
    /\ UNCHANGED <<connVars, tgtVars>>

\* faulty variant: the handling task is started without active.Add(1)
AcceptConnNoAdd(i) ==
    /\ srv = "accept" /\ ~lnClosed
    /\ hs[i] = "none" /\ \A j \in 1..(i - 1) : hs[j] # "none"
    /\ retryDelay' = 0
    /\ delays' = <<>>
    /\ hs' = [hs EXCEPT ![i] = "running"]
    /\ lastErr' = NoErr
    /\ UNCHANGED <<srv, active, ctxDone, lnClosed, waiter, drainLeft>>
    /\ UNCHANGED <<connVars, tgtVars>>

\* Accept returns connection i: retryDelay = 0, active.Add(1), go handleConn
AcceptConn(i) ==
    /\ srv = "accept" /\ ~lnClosed
    /\ hs[i] = "none" /\ \A j \in 1..(i - 1) : hs[j] # "none"
    /\ retryDelay' = 0
    /\ delays' = <<>>
    /\ active' = active + 1
    /\ hs' = [hs EXCEPT ![i] = "running"]
    /\ lastErr' = NoErr
    /\ UNCHANGED <<srv, ctxDone, lnClosed, waiter, drainLeft>>
    /\ UNCHANGED <<connVars, tgtVars>>

\* Accept fails on the closed listener: serve returns
AcceptClosed ==
    /\ srv = "accept" /\ lnClosed
    /\ \E e \in AcceptErrs :
        /\ e.closed /\ AcceptFailure(e) = "closed"
        /\ lastErr' = e
    /\ DrainBegin
    /\ UNCHANGED <<retryDelay, delays, active, hs, ctxDone, lnClosed>>
    /\ UNCHANGED <<connVars, tgtVars>>

\* Accept fails with a transient error: the delay grows and serve waits
AcceptTemporary ==
    /\ srv = "accept" /\ ~lnClosed
    /\ Len(delays) < MaxFailures
    /\ \E e \in AcceptErrs :
        /\ ~e.closed /\ AcceptFailure(e) = "retry"
        /\ lastErr' = e
    /\ retryDelay' = nextRetryDelay(retryDelay)
    /\ delays' = Append(delays, retryDelay')
    /\ srv' = "backoff"
    /\ UNCHANGED <<active, hs, ctxDone, lnClosed, waiter, drainLeft>>
    /\ UNCHANGED <<connVars, tgtVars>>

\* faulty variant: a fatal error ends serve without the deferred wait
AcceptFatalDirect ==
    /\ srv = "accept" /\ ~lnClosed
    /\ \E e \in AcceptErrs :
        /\ ~e.closed /\ AcceptFailure(e) = "fatal"
        /\ lastErr' = e
    /\ srv' = "stopped"
    /\ UNCHANGED <<retryDelay, delays, active, hs, ctxDone, lnClosed, waiter,
                   drainLeft>>
    /\ UNCHANGED <<connVars, tgtVars>>

\* Accept fails with any other error: serve logs it and returns
AcceptFatal ==
    /\ srv = "accept" /\ ~lnClosed
    /\ \E e \in AcceptErrs :
        /\ ~e.closed /\ AcceptFailure(e) = "fatal"
        /\ lastErr' = e
    /\ DrainBegin
    /\ UNCHANGED <<retryDelay, delays, active, hs, ctxDone, lnClosed>>
    /\ UNCHANGED <<connVars, tgtVars>>

\* select: time.After(retryDelay) fires, continue
BackoffTimer ==
    /\ srv = "backoff"
    /\ srv' = "accept"
    /\ lastErr' = NoErr
    /\ UNCHANGED <<retryDelay, delays, active, hs, ctxDone, lnClosed, waiter,
                   drainLeft>>
    /\ UNCHANGED <<connVars, tgtVars>>

\* faulty variant: the wait is given up without a cancellation
BackoffCancelAlways ==
    /\ srv = "backoff"
    /\ DrainBegin
    /\ UNCHANGED <<retryDelay, delays, active, hs, ctxDone, lnClosed, lastErr>>
    /\ UNCHANGED <<connVars, tgtVars>>

\* select: ctx.Done() is ready, serve returns
BackoffCancel ==
    /\ srv = "backoff" /\ ctxDone
    /\ DrainBegin
    /\ UNCHANGED <<retryDelay, delays, active, hs, ctxDone, lnClosed, lastErr>>
    /\ UNCHANGED <<connVars, tgtVars>>

\* main: the signal context is cancelled
Signal ==
    /\ ~ctxDone
    /\ ctxDone' = TRUE
    /\ UNCHANGED <<srv, retryDelay, delays, active, hs, lnClosed, waiter,
                   drainLeft, lastErr>>
    /\ UNCHANGED <<connVars, tgtVars>>

\* main: ln.Close() once the context is done, or deferred after serve
CloseListener ==
    /\ ~lnClosed
    /\ ctxDone \/ srv = "stopped"
    /\ lnClosed' = TRUE
    /\ UNCHANGED <<srv, retryDelay, delays, active, hs, ctxDone, waiter,
                   drainLeft, lastErr>>
    /\ UNCHANGED <<connVars, tgtVars>>

\* faulty variant: a failed handling task takes serve down with it
HandlerExitPropagates(i, how) ==
    /\ hs[i] = "running"
    /\ hs' = [hs EXCEPT ![i] = how]
    /\ active' = active - 1
    /\ srv' = IF how = "failed" /\ srv \in {"accept", "backoff"} THEN "stopped" ELSE srv
    /\ UNCHANGED <<retryDelay, delays, ctxDone, lnClosed, waiter, drainLeft,
                   lastErr>>
    /\ UNCHANGED <<connVars, tgtVars>>

\* the goroutine of connection i: handleConn returns, deferred active.Done()
HandlerExit(i, how) ==
    /\ hs[i] = "running"
    /\ hs' = [hs EXCEPT ![i] = how]
    /\ active' = active - 1
    /\ UNCHANGED <<srv, retryDelay, delays, ctxDone, lnClosed, waiter,
                   drainLeft, lastErr>>
    /\ UNCHANGED <<connVars, tgtVars>>

HandlerStep == \E i \in Conns, how \in ExitPaths : HandlerExit(i, how)

\* waitForWaitGroup's goroutine: wg.Wait() returns, close(done)
WaiterWake ==
    /\ waiter = "waiting" /\ active = 0
    /\ waiter' = "closed"
    /\ UNCHANGED <<srv, retryDelay, delays, active, hs, ctxDone, lnClosed,
                   drainLeft, lastErr>>
    /\ UNCHANGED <<connVars, tgtVars>>

\* faulty variant: the wait sits inside the loop, and the loop goes on
DrainDoneResume ==
    /\ srv = "drain" /\ waiter = "closed"
    /\ srv' = "accept"
    /\ UNCHANGED <<retryDelay, delays, active, hs, ctxDone, lnClosed, waiter,
                   drainLeft, lastErr>>
    /\ UNCHANGED <<connVars, tgtVars>>

\* waitForWaitGroup's select: done is closed, return true
DrainDone ==
    /\ srv = "drain" /\ waiter = "closed"
    /\ srv' = "stopped"
    /\ UNCHANGED <<retryDelay, delays, active, hs, ctxDone, lnClosed, waiter,
                   drainLeft, lastErr>>
    /\ UNCHANGED <<connVars, tgtVars>>

\* the drain timer runs while serve waits for handling tasks
DrainTick ==
    /\ srv = "drain" /\ drainLeft > 0 /\ active > 0
    /\ drainLeft' = drainLeft - 1
    /\ UNCHANGED <<srv, retryDelay, delays, active, hs, ctxDone, lnClosed,
                   waiter, lastErr>>
    /\ UNCHANGED <<connVars, tgtVars>>

\* faulty variant: the tasks still running are ended by the timeout
DrainTimeoutKills ==
    /\ srv = "drain" /\ drainLeft = 0
    /\ srv' = "stopped"
    /\ hs' = [i \in Conns |-> IF hs[i] = "running" THEN "failed" ELSE hs[i]]
    /\ active' = 0
    /\ UNCHANGED <<retryDelay, delays, ctxDone, lnClosed, waiter, drainLeft,
                   lastErr>>
    /\ UNCHANGED <<connVars, tgtVars>>

\* faulty variant: the wait for the handling tasks has no timeout
DrainTimeoutWaits ==
    /\ srv = "drain" /\ drainLeft = 0 /\ active = 0
    /\ srv' = "stopped"
    /\ UNCHANGED <<retryDelay, delays, active, hs, ctxDone, lnClosed, waiter,
                   drainLeft, lastErr>>
    /\ UNCHANGED <<connVars, tgtVars>>

\* waitForWaitGroup's select: time.After(timeout) fires, return false
DrainTimeout ==
    /\ srv = "drain" /\ drainLeft = 0
    /\ srv' = "stopped"
    /\ UNCHANGED <<retryDelay, delays, active, hs, ctxDone, lnClosed, waiter,
                   drainLeft, lastErr>>
    /\ UNCHANGED <<connVars, tgtVars>>

AcceptStep == \E i \in Conns : AcceptConn(i)

NextServe ==
    \/ AcceptStep
    \/ AcceptClosed
    \/ AcceptTemporary
    \/ AcceptFatal
    \/ BackoffTimer
    \/ BackoffCancel
    \/ Signal
    \/ CloseListener
    \/ HandlerStep
    \/ WaiterWake
    \/ DrainDone
    \/ DrainTick
    \/ DrainTimeout

SpecServe == Init /\ [][NextServe]_vars

\* serve and the goroutine of waitForWaitGroup run when they can and the
\* drain timer runs; nothing is assumed about clients, handling tasks or
\* the signal
SpecServeFair ==
    /\ SpecServe
    /\ WF_vars(WaiterWake)
    /\ WF_vars(DrainDone \/ DrainTimeout)
    /\ WF_vars(DrainTick)

\* ... and, besides, Accept on the closed listener returns and the select
\* of the backoff wait takes a case that is ready
SpecServeShutdown ==
    /\ SpecServeFair
    /\ WF_vars(AcceptClosed)
    /\ WF_vars(BackoffTimer \/ BackoffCancel)

(* ------------------- connectTarget as a function ----------------------- *)
\* the characters targets are made of: a letter, two digits, the separators
\* of host and port, and the characters connectTarget trims or refuses
TargetAlphabet == {"h", "1", "0", ":", "[", "]", " ", "\t", "/", "\\"}

Str(n) == UNION {[1..k -> TargetAlphabet] : k \in 0..n}

\* longer authorities: ports around the 16-bit limit, address literals
LongTargets ==
    { <<"h", ":", "6", "5", "5", "3", "5">>,
      <<"h", ":", "6", "5", "5", "3", "6">>,
      <<"h", ":", "0", "0", "0", "8", "0">>,
      <<"h", ":", "9", "9", "9", "9", "9", "9">>,
      <<"1", ".", "0", ".", "0", ".", "1">>,
      <<"1", ".", "0", ".", "0", ".", "1", ":", "8", "0">>,
      <<"[", ":", ":", "1", "]", ":", "4", "4", "3">>,
      <<"[", ":", ":", "1", "]", ":", "0">>,
      <<"[", ":", ":", "1", "]", ":", "6", "5", "5", "3", "6">>,
      <<"[", ":", ":", "1", "]">>,
      <<"[", ":", ":", "1", "]", "h", ":", "1">>,
      <<"f", "e", "8", "0", ":", ":", "1">>,
      <<" ", "h", ".", "c", "o", "m", ":", "4", "4", "3", " ">>,
      <<"h", ".", "c", "o", "m", "/", "p">> }

TargetInputs == Str(MaxTargetLen) \cup LongTargets

InitTarget ==
    /\ ConnInit
    /\ ServeInit
    /\ tgtIn \in TargetInputs
    /\ tgtOut = NoResult

\* the call connectTarget(req.Host)
Resolve ==
    /\ tgtOut = NoResult
    /\ tgtOut' = connectTarget(tgtIn)
    /\ UNCHANGED <<tgtIn, connVars, srvVars>>

NextTarget == Resolve

SpecTarget == InitTarget /\ [][NextTarget]_vars

(* --------------------------- specification ----------------------------- *)
Handler ==
    \/ PeekFail \/ RouteSOCKS5 \/ RouteHTTP \/ SocksRead \/ SocksReturn
    \/ HttpReadRequest \/ HttpReadError \/ HttpMethodNotAllowed
    \/ HttpBadTarget \/ HttpDialFail \/ HttpDialOK \/ HttpReply200
    \/ HttpSpawn \/ HttpReturn

RelayA == RelayA_Copy \/ RelayA_End

RelayB == RelayB_Copy \/ RelayB_End

Next ==
    \/ ClientSend
    \/ ClientClose
    \/ TargetSend
    \/ TargetClose
    \/ PeekFail
    \/ RouteSOCKS5
    \/ RouteHTTP
    \/ SocksRead
    \/ SocksReturn
    \/ HttpReadRequest
    \/ HttpReadError
    \/ HttpMethodNotAllowed
    \/ HttpBadTarget
    \/ HttpDialFail
    \/ HttpDialOK
    \/ HttpReply200
    \/ HttpSpawn
    \/ RelayA_Copy
    \/ RelayA_End
    \/ RelayB_Copy
    \/ RelayB_End
    \/ HttpReturn
    \/ Tick

Spec == Init /\ [][Next]_vars

\* every task that can run does run; time need not advance
SpecFair ==
    Spec /\ WF_vars(Handler) /\ WF_vars(RelayA) /\ WF_vars(RelayB)

\* ... and time advances while the proxy waits
SpecIdle == SpecFair /\ WF_vars(Tick)

(* ------------------------------ claims --------------------------------- *)
Range(s) == {s[i] : i \in 1..Len(s)}

\* an error response as writeHTTPError puts it on the wire
IsErrorResponse(b, code) ==
    b.k = "response" /\ b.n = code /\ "Connection: close" \in Range(b.v)

\* the handler wrote exactly one response, an error with this status
OnlyResponse(code) == Len(cRecv) = 1 /\ IsErrorResponse(cRecv[1], code)

NoDial == dial = "none" /\ dialAddr = <<>>

NoRelay == task.a = "idle" /\ task.b = "idle" /\ tRecv = <<>>

\* the request was read and parsed without an error
Parsed == pst = "done" /\ rdErr = "" /\ pc # "readreq"

\* C1: a connection whose first byte was peeked is routed to the SOCKS5
\* engine exactly when that byte is 0x05 and to handleHTTPConnect otherwise;
\* at the hand-off every byte read from the connection is still buffered,
\* and the first byte the chosen handler reads is the client's first byte.
C1_Routing ==
    /\ route # "" =>
        /\ route = "socks5" <=> cSent[1] = SocksVersion
        /\ route = "http" <=> cSent[1] # SocksVersion
        /\ route = "socks5" => pc \in {"socks", "done"} /\ pst = "method" /\ cRecv = <<>>
        /\ route = "http" => pc # "socks"
        /\ firstRead = <<>> => brBuf = SubSeq(cSent, 1, cPos)
    /\ firstRead # <<>> => route # "" /\ firstRead[1] = cSent[1]

C1_Witness == route = "socks5" /\ firstRead = <<SocksVersion>> /\ Len(cSent) > 1

\* the tokens the client wrote after the 200 reply was written
PostSent == SubSeq(cSent, estSent + 1, Len(cSent))

\* ... and those of them written to the target so far
PostDelivered == SelectSeq(tRecv, LAMBDA b : b \in Range(PostSent))

Increasing(s) == \A i, j \in 1..Len(s) : i < j => s[i].n < s[j].n

\* C2: in an established tunnel the bytes the client writes reach the target
\* in order, none lost, duplicated or altered, and the same holds from the
\* target to the client.
C2_TunnelBytes ==
    dial = "ok" =>
        /\ IsPrefix(PostDelivered, PostSent)
        /\ Increasing(tRecv)
        /\ Range(tRecv) \subseteq {b \in Range(cSent) : b.k = "data"}
        /\ cRecv # <<>> => IsPrefix(Tail(cRecv), tSent)

C2_Witness ==
    /\ pc = "wait" /\ ~cEOF /\ ~tEOF
    /\ Len(PostSent) = MaxPayload /\ PostDelivered = PostSent
    /\ Tail(cRecv) = tSent /\ Len(tSent) = MaxTargetBytes

\* C3: once either stream of an established tunnel is closed, by a peer or by
\* a relay task, both relay tasks end and handleHTTPConnect returns.
C3_CloseEndsTunnel ==
    (pc = "wait" /\ (cEOF \/ tEOF \/ closes.c > 0 \/ closes.t > 0))
        ~> (task.a = "done" /\ task.b = "done" /\ pc = "done")

C3_Witness ==
    /\ pc = "done" /\ task.a = "done" /\ task.b = "done"
    /\ tEOF /\ ~cEOF /\ ~Expired("c") /\ ~Expired("t")

\* C4: a tunnel idle for the idle duration, neither peer having closed, is
\* torn down: both relay tasks end and both streams are closed.
C4_IdleTeardown ==
    (pc = "wait" /\ idle >= IdleTicks /\ ~cEOF /\ ~tEOF)
        ~> (task.a = "done" /\ task.b = "done" /\ closes.c > 0 /\ closes.t > 0)

C4_Witness ==
    /\ idle >= IdleTicks /\ ~cEOF /\ ~tEOF
    /\ task.a = "done" /\ task.b = "done" /\ closes.c > 0 /\ closes.t > 0

\* C5: a request read that fails because the byte cap is used up is answered
\* by exactly one response, 431 with Connection: close, and nothing is dialed.
C5_CapExhausted ==
    rdErr = "cap" =>
        /\ NoDial /\ NoRelay
        /\ pc = "done" => OnlyResponse(StatusRequestHeaderFieldsTooLarge)
        /\ pc # "done" => cRecv = <<>>

C5_Witness == rdErr = "cap" /\ pc = "done" /\ Len(cSent) = ReqCap

\* C6 (as claimed): a request read that fails for another reason (malformed
\* request, end of stream, read deadline) is answered by exactly one 400.
C6_OtherFailure ==
    (rdErr \in {"malformed", "eof", "timeout"} /\ pc = "done") =>
        OnlyResponse(StatusBadRequest) /\ NoDial

\* C7: a parsed request whose method is not CONNECT is answered 405, whatever
\* its target; nothing is resolved or dialed.
C7_MethodNotAllowed ==
    (Parsed /\ req.method # MethodConnect) =>
        /\ NoDial /\ NoRelay
        /\ pc = "done" => OnlyResponse(StatusMethodNotAllowed)
        /\ pc # "done" => cRecv = <<>>

C7_Witness ==
    /\ Parsed /\ pc = "done" /\ req.method = MethodGet
    /\ req.host = <<"h", ":", "0">>

\* authorities the resolver has to reject: port 0, empty host
RejectedTargets == { <<"h", ":", "0">>, <<":", "1">> }

\* C8: a CONNECT request whose authority the resolver rejects is answered
\* 400 and nothing is dialed.
C8_BadTarget ==
    (Parsed /\ req.method = MethodConnect /\ req.host \in RejectedTargets) =>
        /\ NoDial /\ NoRelay
        /\ pc \in {"afterread", "done"}
        /\ pc = "done" => OnlyResponse(StatusBadRequest)

C8_Witness ==
    /\ Parsed /\ pc = "done" /\ req.method = MethodConnect
    /\ req.host = <<"h", ":", "0">>

\* C9: a failed dial is answered 502 and the handler returns: no 200 is
\* written and no relay task starts.
C9_DialFailure ==
    dial = "failed" =>
        /\ pc = "done" /\ NoRelay
        /\ OnlyResponse(StatusBadGateway)
        /\ closes.t = 0

C9_Witness == dial = "failed" /\ dialAddr = <<"h", ":", "4", "4", "3">>

\* C10: after a successful dial the handler writes the literal 200 line and
\* nothing else; whatever follows it on the client stream is target data.
C10_Reply200 ==
    dial = "ok" =>
        /\ pc = "reply" => cRecv = <<>>
        /\ pc # "reply" =>
            /\ cRecv # <<>>
            /\ cRecv[1] = [k |-> "response", v |-> <<>>, n |-> 200]
            /\ \A i \in 2..Len(cRecv) : cRecv[i].k = "data" /\ cRecv[i] \in Range(tSent)

C10_Witness == pc = "wait" /\ Len(cRecv) = 1 + MaxTargetBytes

(* C11: when the one-byte peek fails (nothing was ever read from the        *)
(* connection), handleConn closes the connection once, has written nothing  *)
(* to the client, and neither the SOCKS5 engine nor the HTTP CONNECT        *)
(* handler was invoked: no route, no request quota, no read, no dial.       *)
C11_PeekFailure ==
    (pc = "done" /\ cPos = 0) =>
        /\ cRecv = <<>>
        /\ closes.c = 1
        /\ route = "" /\ firstRead = <<>> /\ lrN = 0 /\ req = NoReq
        /\ NoDial /\ NoRelay

\* the peek deadline ran out on a client that sent nothing and stays open
C11_Witness == pc = "done" /\ cPos = 0 /\ ~cEOF /\ Expired("c")

(* C12: serve only ever moves Running -> Draining -> Stopped.  Running is   *)
(* the loop (blocked in Accept or in the backoff select), Draining the      *)
(* deferred waitForWaitGroup, Stopped the state after serve has returned.   *)
(* No step goes back or skips a state, no connection is accepted and no     *)
(* handling task spawned outside Running, and nothing of serve's own state  *)
(* changes once it is Stopped.                                              *)
PhaseOf(where) ==
    IF where \in {"accept", "backoff"} THEN 0 ELSE IF where = "drain" THEN 1 ELSE 2

Spawned(h) == {i \in Conns : h[i] # "none"}

C12_Lifecycle ==
    [][/\ PhaseOf(srv') \in {PhaseOf(srv), PhaseOf(srv) + 1}
       /\ PhaseOf(srv) >= 1 => Spawned(hs') = Spawned(hs)
       /\ Spawned(hs') # Spawned(hs) => PhaseOf(srv') = 0
       /\ srv = "stopped" =>
            /\ srv' = "stopped"
            /\ UNCHANGED <<retryDelay, delays, drainLeft, lastErr>>]_vars

\* serve has stopped after accepting the first connection only
C12_Witness == srv = "stopped" /\ hs[1] # "none" /\ hs[2] = "none" /\ ~lnClosed

(* C13: once Draining, serve stops only when every spawned handling task    *)
(* has finished or the drain timeout has run out; the step that stops it    *)
(* leaves every handling task as it is.  With the count at zero serve stops *)
(* before the timeout runs out, and it stops in any case.                   *)
Running(h) == {i \in Conns : h[i] = "running"}

C13_Drain ==
    /\ [][(srv = "drain" /\ srv' = "stopped") =>
            /\ (active = 0 /\ Running(hs) = {}) \/ drainLeft = 0
            /\ hs' = hs /\ active' = active]_vars
    /\ (srv = "drain" /\ active = 0 /\ drainLeft > 0)
            ~> (srv = "stopped" /\ drainLeft > 0)
    /\ (srv = "drain") ~> (srv = "stopped")

\* serve has stopped on the timeout while a handling task is still running
C13_Witness ==
    srv = "stopped" /\ drainLeft = 0 /\ waiter = "waiting" /\ hs[1] = "running"

(* C14: in a run of consecutive transient accept failures the first delay   *)
(* is 50ms, every later delay is twice the one before it, or the 1s ceiling *)
(* when twice the one before would pass it, and no delay exceeds 1s.        *)
C14_Backoff ==
    /\ \A i \in 1..Len(delays) :
        /\ delays[i] <= maxAcceptRetryDelay
        /\ i = 1 => delays[i] = FirstRetryDelay
        /\ i > 1 => IF 2 * delays[i - 1] <= maxAcceptRetryDelay
                    THEN delays[i] = 2 * delays[i - 1]
                    ELSE delays[i] = maxAcceptRetryDelay
    /\ delays # <<>> => retryDelay = delays[Len(delays)]
    /\ retryDelay <= maxAcceptRetryDelay

\* a full run of failures after a successful accept, waiting at the ceiling
C14_Witness ==
    /\ srv = "backoff" /\ hs[1] # "none"
    /\ Len(delays) = MaxFailures /\ retryDelay = maxAcceptRetryDelay

(* C15: the step in which the handling of one connection fails changes      *)
(* nothing of serve (its state, retry delay, listener, context) and nothing *)
(* of any other connection's handling task; and with a failed task around,  *)
(* serve blocked in Accept on an open listener still accepts the next       *)
(* connection.                                                              *)
C15_Containment ==
    /\ [][\A i \in Conns :
            (hs[i] = "running" /\ hs'[i] = "failed") =>
                /\ UNCHANGED <<srv, retryDelay, delays, lastErr, ctxDone, lnClosed,
                               waiter, drainLeft>>
                /\ \A j \in Conns \ {i} : hs'[j] = hs[j]
                /\ active' = active - 1]_vars
    /\ []((/\ \E i \in Conns : hs[i] = "failed"
           /\ \E j \in Conns : hs[j] = "none"
           /\ srv = "accept" /\ ~lnClosed) => ENABLED AcceptStep)

\* the first connection's handling failed; the second was accepted and runs
C15_Witness ==
    hs[1] = "failed" /\ hs[2] = "running" /\ srv = "accept" /\ retryDelay = 0

(* C16, as claimed: the proxy calls Close on the accepted connection exactly *)
(* once on every exit path of its handling task, never a second time.        *)
C16_ClosedOnce ==
    /\ closes.c <= 1
    /\ pc = "done" => closes.c = 1

(* C16, amended: handleConn and handleHTTPConnect close the accepted         *)
(* connection on every exit path: exactly once when no tunnel was set up,    *)
(* and exactly twice after a tunnel, first by the target-to-client relay     *)
(* task and then by handleConn's deferred Close.                             *)
C16_ClosedPerPath ==
    /\ pc = "done" => closes.c = (IF dial = "ok" THEN 2 ELSE 1)
    /\ pc # "done" => closes.c = (IF task.b = "done" THEN 1 ELSE 0)

\* a tunnel has ended and the handler has returned
C16_Witness == pc = "done" /\ dial = "ok" /\ closes.c = 2 /\ tRecv # <<>>

(* The shapes of target the claims C17..C19 speak of, told from the text    *)
(* alone.  A plain host is a hostname or IPv4 literal; a bare IPv6 literal  *)
(* has two colons or more and no bracket; a port is a run of decimal        *)
(* digits.                                                                  *)
Blank == {" ", "\t", "\n", "\r"}

PlainHost(s) ==
    s # <<>> /\ \A i \in 1..Len(s) : s[i] \notin Blank \cup {":", "[", "]", "/", "\\"}

BareV6(s) ==
    /\ Cardinality({i \in 1..Len(s) : s[i] = ":"}) >= 2
    /\ \A i \in 1..Len(s) : s[i] \notin Blank \cup {"[", "]", "/", "\\"}

BracketedV6(s) ==
    Len(s) >= 2 /\ s[1] = "[" /\ s[Len(s)] = "]" /\ BareV6(SubSeq(s, 2, Len(s) - 1))

DecimalDigits == {"0", "1", "2", "3", "4", "5", "6", "7", "8", "9"}

DecimalDigit ==
    "0" :> 0 @@ "1" :> 1 @@ "2" :> 2 @@ "3" :> 3 @@ "4" :> 4 @@
    "5" :> 5 @@ "6" :> 6 @@ "7" :> 7 @@ "8" :> 8 @@ "9" :> 9

RECURSIVE DecimalValue(_)
DecimalValue(s) ==
    IF s = <<>> THEN 0
    ELSE 10 * DecimalValue(SubSeq(s, 1, Len(s) - 1)) + DecimalDigit[s[Len(s)]]

MaxPort == 65535

PortOK(p) ==
    /\ p # <<>>
    /\ \A i \in 1..Len(p) : p[i] \in DecimalDigits
    /\ DecimalValue(p) \in 1..MaxPort

\* s reads host ':' port, with the host plain, bracketed or empty
HostPortSplits(s) ==
    {k \in 1..Len(s) :
        /\ s[k] = ":"
        /\ \A i \in (k + 1)..Len(s) : s[i] \notin {":", "[", "]"}
        /\ LET h == SubSeq(s, 1, k - 1)
           IN  \/ \A i \in 1..Len(h) : h[i] \notin {":", "[", "]"}
               \/ /\ Len(h) >= 2 /\ h[1] = "[" /\ h[Len(h)] = "]"
                  /\ \A i \in 2..(Len(h) - 1) : h[i] \notin {"[", "]"}}

HostOf(s, k) == SubSeq(s, 1, k - 1)
PortOf(s, k) == SubSeq(s, k + 1, Len(s))

(* C17: a well-formed host:port target (a plain host or a bracketed IPv6    *)
(* literal, a colon, a decimal port in 1..65535, no blank, slash or         *)
(* backslash) is accepted and returned unchanged.                           *)
WellFormedHostPort(s) ==
    \E k \in HostPortSplits(s) :
        /\ PlainHost(HostOf(s, k)) \/ BracketedV6(HostOf(s, k))
        /\ PortOK(PortOf(s, k))

C17_HostPortUnchanged ==
    (tgtOut # NoResult /\ WellFormedHostPort(tgtIn)) =>
        tgtOut = [ok |-> TRUE, addr |-> tgtIn]

\* a bracketed IPv6 literal with a port has been resolved
C17_Witness ==
    tgtOut # NoResult /\ WellFormedHostPort(tgtIn) /\ tgtIn[1] = "[" /\ tgtOut.ok

(* C18: a target without a port is accepted and given port 443: a plain     *)
(* host (hostname or IPv4 literal) is followed by ':443', a bare IPv6       *)
(* literal is put in one pair of square brackets and followed by ':443'.    *)
C18_DefaultPort ==
    tgtOut # NoResult =>
        /\ PlainHost(tgtIn) =>
            tgtOut = [ok |-> TRUE, addr |-> tgtIn \o <<":", "4", "4", "3">>]
        /\ BareV6(tgtIn) =>
            tgtOut = [ok |-> TRUE,
                      addr |-> <<"[">> \o tgtIn \o <<"]", ":", "4", "4", "3">>]

\* a bare IPv6 literal has been resolved
C18_Witness == tgtOut # NoResult /\ BareV6(tgtIn) /\ tgtIn[Len(tgtIn)] = "1"

(* C19, as claimed: connectTarget fails for every target that is empty, or  *)
(* contains a space, '/' or '\', or reads host ':' port with an empty host  *)
(* or with a port that is not a decimal number in 1..65535.                 *)
Refused(s) ==
    \/ s = <<>>
    \/ \E i \in 1..Len(s) : s[i] \in {" ", "/", "\\"}
    \/ \E k \in HostPortSplits(s) :
        \/ HostOf(s, k) \in {<<>>, <<"[", "]">>}
        \/ ~PortOK(PortOf(s, k))

C19_Rejects ==
    (tgtOut # NoResult /\ Refused(tgtIn)) => ~tgtOut.ok

(* C19, amended: the same, for the target as it is after leading and        *)
(* trailing whitespace has been trimmed.                                    *)
RECURSIVE Trimmed(_)
Trimmed(s) ==
    IF s # <<>> /\ s[1] \in Blank THEN Trimmed(Tail(s))
    ELSE IF s # <<>> /\ s[Len(s)] \in Blank THEN Trimmed(SubSeq(s, 1, Len(s) - 1))
    ELSE s

C19_RejectsTrimmed ==
    (tgtOut # NoResult /\ Refused(Trimmed(tgtIn))) => ~tgtOut.ok

\* a port one above the 16-bit limit has been refused
C19_Witness ==
    /\ tgtOut # NoResult /\ ~tgtOut.ok
    /\ tgtIn = <<"h", ":", "6", "5", "5", "3", "6">>

(* C20: an accept error is transient exactly when it is ECONNABORTED, or    *)
(* reports Temporary() true, or is a network error (an error with both      *)
(* methods of net.Error) reporting Timeout() true; nil is not transient.    *)
(* serve backs off exactly on the transient errors and returns on the       *)
(* others, and an error of the closed listener makes it return whatever     *)
(* else the error reports, leaving the retry delay alone.                   *)
Transient(e) ==
    \/ e.aborted
    \/ e.hasTemporary /\ e.temporary
    \/ e.hasTemporary /\ e.hasTimeout /\ e.timeout

C20_Classification ==
    /\ ~isTemporaryAcceptError(NoErr)
    /\ [][(srv = "accept" /\ srv' # "accept") =>
            /\ lastErr' \in AcceptErrs
            /\ IF lastErr'.closed
               THEN srv' = "drain" /\ retryDelay' = retryDelay
               ELSE /\ isTemporaryAcceptError(lastErr') = Transient(lastErr')
                    /\ (srv' = "backoff") = Transient(lastErr')
                    /\ (srv' = "drain") = ~Transient(lastErr')]_vars

\* serve returned on an error of the closed listener that reports Temporary()
C20_Witness ==
    /\ srv = "drain" /\ lastErr \in AcceptErrs
    /\ lastErr.closed /\ lastErr.temporary /\ delays = <<>>

(* C21: the reads on the peeked stream hand out exactly what the client     *)
(* sent, in order and from the peeked byte on: what was read from the       *)
(* connection is what was handed to the request reader, then what was       *)
(* handed to the relay, then what the buffer still holds, with nothing      *)
(* missing and nothing twice.  A write to the client leaves the buffer and  *)
(* the read position alone.                                                 *)
HandedToRequest == IF route = "http" THEN ReqCap - lrN ELSE 0

C21_PeekedReads ==
    /\ [](/\ Len(brBuf) <= cPos /\ cPos <= Len(cSent)
          /\ brBuf = SubSeq(cSent, cPos - Len(brBuf) + 1, cPos)
          /\ firstRead # <<>> => firstRead = <<cSent[1]>>
          /\ route = "http" =>
                /\ HandedToRequest + Len(tRecv) + Len(brBuf) = cPos
                /\ tRecv = SubSeq(cSent, HandedToRequest + 1,
                                  HandedToRequest + Len(tRecv)))
    /\ [][cRecv' # cRecv => brBuf' = brBuf /\ cPos' = cPos]_vars

\* the relay has handed on tokens that sat in the buffer since the request
C21_Witness ==
    /\ pc = "wait" /\ Len(tRecv) = MaxPayload /\ brBuf = <<>>
    /\ lost = <<>> /\ cPos = Len(cSent)

(* C22: the request is parsed from the dispatcher's own buffered reader, so *)
(* nothing the client sent after the request head is held back: no token    *)
(* stays behind in a second buffer, and what the relay hands to the target  *)
(* is what follows the head, from its first token on.                       *)
HeadLen ==
    IF \E i \in 1..Len(cSent) : cSent[i].k = "end"
    THEN CHOOSE i \in 1..Len(cSent) :
            cSent[i].k = "end" /\ \A j \in 1..(i - 1) : cSent[j].k # "end"
    ELSE Len(cSent)

C22_SingleBuffer ==
    dial = "ok" =>
        /\ lost = <<>>
        /\ IsPrefix(tRecv, SubSeq(cSent, HeadLen + 1, Len(cSent)))

(* C23: when the relay tasks start, the 200 response is all the client has  *)
(* been sent and nothing has been read from the target; until then no relay *)
(* task runs, and every token of the target the client ever gets comes      *)
(* after the response.                                                      *)
C23_ReplyBeforeRelay ==
    /\ [][(task # task' /\ task = [a |-> "idle", b |-> "idle"]) =>
            /\ cRecv = <<ConnectionEstablished>>
            /\ cRecv' = cRecv
            /\ tPos = 0 /\ tRecv = <<>>]_vars
    /\ [](pc \in {"afterread", "reply", "spawn"} => NoRelay /\ tPos = 0)
    /\ [](\A i \in 1..Len(cRecv) :
            cRecv[i].k = "data" => i > 1 /\ cRecv[1] = ConnectionEstablished)

\* the target had already sent when the relay tasks started after the 200
C23_Witness ==
    /\ pc = "wait" /\ tPos = 0 /\ tSent # <<>>
    /\ cRecv = <<ConnectionEstablished>> /\ task.b = "reading"

(* C24: once a tunnel is set up, handleHTTPConnect returns only with both   *)
(* relay tasks completed.                                                   *)
C24_WaitsForBoth ==
    /\ [][(pc = "wait" /\ pc' # "wait") =>
            /\ task.a = "done" /\ task.b = "done"
            /\ task' = task]_vars
    /\ []((pc = "done" /\ dial = "ok") => task = [a |-> "done", b |-> "done"])

\* the handler has returned from a tunnel the client ended
C24_Witness ==
    pc = "done" /\ dial = "ok" /\ cEOF /\ ~tEOF /\ task.a = "done" /\ task.b = "done"

\* the relay made a Read or a Write call on a wrapped stream in this step
RelayCall(s) ==
    \/ task = [a |-> "idle", b |-> "idle"] /\ task' # task
    \/ pc = "wait" /\ (tRecv' # tRecv \/ cRecv' # cRecv)
    \/ pc = "wait" /\ s = "c" /\ cPos' # cPos
    \/ pc = "wait" /\ s = "t" /\ tPos' # tPos

(* C25: every Read and every Write of the relay on a wrapped stream leaves  *)
(* that stream's deadline at now plus the idle duration; a pending Read     *)
(* always has a deadline no further away than that; and a Read whose        *)
(* deadline passes with nothing to deliver fails with a timeout.            *)
C25_IdleDeadline ==
    /\ [][\A s \in {"c", "t"} :
            RelayCall(s) => deadline'[s] = Armed(IdleTicks)]_vars
    /\ [](task.a = "reading" =>
            deadline["c"].set /\ deadline["c"].left <= IdleTicks)
    /\ [](task.b = "reading" =>
            deadline["t"].set /\ deadline["t"].left <= IdleTicks)
    /\ []((pc = "wait" /\ idle >= IdleTicks /\ task.a = "reading"
            /\ closes["c"] = 0 /\ brBuf = <<>>) => ReadA.res = "timeout")
    /\ []((pc = "wait" /\ idle >= IdleTicks /\ task.b = "reading"
            /\ closes["t"] = 0) => ReadB.res = "timeout")

\* after relaying in both directions the tunnel fell idle and a Read timed out
C25_Witness ==
    /\ pc = "wait" /\ tRecv # <<>> /\ Len(cRecv) > 1
    /\ idle >= IdleTicks /\ ~cEOF /\ ~tEOF
    /\ closes["c"] = 0 /\ closes["t"] > 0 /\ task.a = "done" /\ task.b = "reading"

(* C26: the step of a successful accept sets the retry delay to zero and    *)
(* starts exactly one handling task, for the accepted connection; the first *)
(* transient failure after it waits 50ms.                                   *)
C26_AcceptResets ==
    /\ [][Spawned(hs') # Spawned(hs) =>
            /\ srv = "accept" /\ srv' = "accept"
            /\ retryDelay' = 0
            /\ Cardinality(Spawned(hs') \ Spawned(hs)) = 1
            /\ Spawned(hs) \subseteq Spawned(hs')
            /\ \A i \in Conns :
                 hs'[i] = IF i \in Spawned(hs) THEN hs[i] ELSE
                          IF i \in Spawned(hs') THEN "running" ELSE "none"]_vars
    /\ [][(retryDelay = 0 /\ srv = "accept" /\ srv' = "backoff") =>
            retryDelay' = FirstRetryDelay]_vars
    /\ []((srv = "accept" /\ lastErr = NoErr /\ Spawned(hs) # {}
           /\ delays = <<>>) => retryDelay = 0)

\* a transient failure that follows successful accepts waits the first delay
C26_Witness ==
    /\ srv = "backoff" /\ delays = <<FirstRetryDelay>> /\ retryDelay = FirstRetryDelay
    /\ hs[1] # "none" /\ hs[2] # "none"

\* Accept fails in this step with an error serve takes as fatal
FatalStep ==
    /\ srv = "accept" /\ lastErr' # lastErr /\ lastErr' # NoErr
    /\ AcceptFailure(lastErr') = "fatal"

(* C27: a fatal accept failure takes serve directly from Running to         *)
(* Stopped, without Draining.                                               *)
C27_FatalStops == [][FatalStep => srv' = "stopped"]_vars

(* C27, amended: a fatal accept failure makes serve return, which runs the  *)
(* deferred bounded wait for the handling tasks in flight: serve goes to    *)
(* Draining, and reaches Stopped only from there.                           *)
C27_FatalDrains ==
    /\ [][FatalStep =>
            /\ srv' = "drain" /\ waiter' = "waiting" /\ drainLeft' = DrainTicks
            /\ hs' = hs /\ active' = active]_vars
    /\ [][(srv' = "stopped" /\ srv # "stopped") => srv = "drain"]_vars

\* after a fatal accept failure serve waits for a handling task in flight
C27_Witness ==
    /\ srv = "drain" /\ lastErr # NoErr /\ AcceptFailure(lastErr) = "fatal"
    /\ active > 0 /\ drainLeft = DrainTicks

(* C28: the wait after a transient accept failure always ends with serve    *)
(* calling accept again.                                                    *)
C28_RetriesAlways == [][(srv = "backoff" /\ srv' # "backoff") => srv' = "accept"]_vars

(* C28, amended: the wait after a transient accept failure ends with serve  *)
(* calling accept again when the delay elapses; when the cancellation       *)
(* signal fires first serve returns and begins to drain, without calling    *)
(* accept again.  The wait itself starts no handling task.                  *)
C28_RetryOrReturn ==
    /\ [][(srv = "backoff" /\ srv' # "backoff") =>
            \/ srv' = "accept" /\ lastErr' = NoErr /\ retryDelay' = retryDelay
            \/ ctxDone /\ srv' = "drain" /\ waiter' = "waiting"]_vars
    /\ [][(srv # "backoff" /\ srv' = "backoff") =>
            srv = "accept" /\ AcceptFailure(lastErr') = "retry"]_vars
    /\ [][srv = "backoff" => hs' = hs \/ Spawned(hs') = Spawned(hs)]_vars

\* the cancellation ended a backoff wait: serve drains with the delay kept
C28_Witness ==
    /\ srv \in {"drain", "stopped"} /\ ctxDone /\ ~lnClosed
    /\ lastErr # NoErr /\ AcceptFailure(lastErr) = "retry" /\ retryDelay > 0

(* C29: the active-connection count is the number of handling tasks started *)
(* and not finished; it goes up by one in the step that starts a task, down *)
(* by one in the step that ends one, changes in no other step, is never     *)
(* negative, and a drain finds it zero only when no task is running.        *)
C29_ActiveCount ==
    /\ [](active = Cardinality(Running(hs)) /\ active >= 0)
    /\ [](waiter = "closed" => Running(hs) = {})
    /\ [][/\ active' - active = Cardinality(Running(hs')) - Cardinality(Running(hs))
          /\ active' - active \in {-1, 0, 1}
          /\ active' = active <=> hs' = hs]_vars
    /\ [][(srv = "drain" /\ srv' = "stopped" /\ drainLeft > 0) =>
            Running(hs) = {}]_vars

\* a drain that waits with one task finished and one still running
C29_Witness ==
    /\ srv = "drain" /\ waiter = "waiting" /\ active = 1
    /\ hs[1] \in ExitPaths /\ hs[2] = "running"

\* the host a target names, and the one host:port string of a host and a port
Unbracket(h) == IF BracketedV6(h) THEN SubSeq(h, 2, Len(h) - 1) ELSE h

HostPortString(host, port) ==
    IF \E i \in 1..Len(host) : host[i] = ":"
    THEN <<"[">> \o host \o <<"]", ":">> \o port
    ELSE host \o <<":">> \o port

(* C30: for a plain host, a bracketed IPv6 literal or a bare IPv6 literal   *)
(* without a port, and for a plain host or a bracketed IPv6 literal with a  *)
(* port in 1..65535, connectTarget returns the host:port string of that     *)
(* host and of the given port, or of 443 when none was given.               *)
C30_RoundTrip ==
    tgtOut # NoResult =>
        /\ (PlainHost(tgtIn) \/ BareV6(tgtIn) \/ BracketedV6(tgtIn)) =>
            tgtOut = [ok |-> TRUE,
                      addr |-> HostPortString(Unbracket(tgtIn), <<"4", "4", "3">>)]
        /\ \A k \in HostPortSplits(tgtIn) :
            (/\ PlainHost(HostOf(tgtIn, k)) \/ BracketedV6(HostOf(tgtIn, k))
             /\ PortOK(PortOf(tgtIn, k))) =>
                tgtOut = [ok |-> TRUE,
                          addr |-> HostPortString(Unbracket(HostOf(tgtIn, k)),
                                                  PortOf(tgtIn, k))]

\* s contains a whitespace or a path-like character
Unsafe(s) == \E i \in 1..Len(s) : s[i] \in Blank \cup {"/", "\\"}

(* C31: connectTarget fails for every target that, once trimmed, still      *)
(* contains a space, tab, carriage return, line feed, '/' or '\', and no    *)
(* result it returns contains one.                                          *)
C31_NoUnsafeCharacter ==
    tgtOut # NoResult =>
        /\ Unsafe(Trimmed(tgtIn)) => ~tgtOut.ok
        /\ tgtOut.ok => ~Unsafe(tgtOut.addr)

(* C32: once the context is cancelled and the listener is closed, serve     *)
(* eventually returns, wherever it was and whatever the handling tasks do.  *)
C32_ShutdownReturns == (ctxDone /\ lnClosed) ~> (srv = "stopped")

\* serve has returned after the shutdown signal with a task still running
\* and another one finished
C32_Witness ==
    /\ srv = "stopped" /\ ctxDone /\ lnClosed
    /\ hs[1] = "running" /\ hs[2] \in ExitPaths

\* the HTTP responses the client has been sent, in order
Responses == SelectSeq(cRecv, LAMBDA b : b.k = "response")

HandlerStatuses ==
    {StatusRequestHeaderFieldsTooLarge, StatusBadRequest, StatusMethodNotAllowed,
     StatusBadGateway, StatusOK}

(* C33: handleHTTPConnect writes at most one HTTP response, the first thing *)
(* the client is sent, with status 431, 400, 405, 502 or 200; exactly one   *)
(* once the request has been dealt with; an error response carries          *)
(* Connection: close; a response is never followed by another, and a tunnel *)
(* that got its 200 gets no error response.                                 *)
C33_OneResponse ==
    /\ [](/\ Len(Responses) <= 1
          /\ Responses # <<>> =>
                /\ route = "http"
                /\ cRecv[1] = Responses[1]
                /\ Responses[1].n \in HandlerStatuses
                /\ Responses[1].n # StatusOK =>
                      IsErrorResponse(Responses[1], Responses[1].n) /\ Len(cRecv) = 1
          /\ (route = "http" /\ pc \in {"spawn", "wait", "done"}) =>
                Len(Responses) = 1
          /\ (route = "http" /\ pc \in {"readreq", "afterread", "reply"}) =>
                Responses = <<>>
          /\ dial = "ok" => \A i \in 1..Len(Responses) : Responses[i].n = StatusOK)
    /\ [][Responses' # Responses => Responses = <<>> /\ Len(Responses') = 1]_vars

\* the handler has returned from a tunnel that carried target data after
\* the one response, the 200
C33_Witness ==
    /\ pc = "done" /\ dial = "ok" /\ Len(Responses) = 1
    /\ Len(cRecv) > 1 /\ closes["c"] > 0

(* C34: in an established tunnel no deadline runs out, and no relay task    *)
(* ends on a timeout, while less than the idle duration has passed since    *)
(* the last chunk was copied in either direction; a relay task that has     *)
(* itself copied nothing for the whole idle duration does not time out      *)
(* while the other one keeps copying.                                       *)
C34_TrafficKeepsAlive ==
    /\ []((pc = "wait" /\ idle < IdleTicks) => ~Expired("c") /\ ~Expired("t"))
    /\ []((pc = "wait" /\ idle < IdleTicks /\ task.a = "reading"
            /\ silent.a >= IdleTicks) => ReadA.res # "timeout")
    /\ []((pc = "wait" /\ idle < IdleTicks /\ task.b = "reading"
            /\ silent.b >= IdleTicks) => ReadB.res # "timeout")
    /\ [][(task.a = "reading" /\ task'.a = "done" /\ ReadA.res = "timeout") =>
            idle >= IdleTicks]_vars
    /\ [][(task.b = "reading" /\ task'.b = "done" /\ ReadB.res = "timeout") =>
            idle >= IdleTicks]_vars

\* the target has sent nothing for the whole idle duration, the client's
\* data is relayed, and the task reading the target is still waiting
C34_Witness ==
    /\ pc = "wait" /\ task.a = "reading" /\ task.b = "reading"
    /\ silent.b >= IdleTicks /\ idle < IdleTicks /\ tSent = <<>>
    /\ tRecv # <<>> /\ ReadB.res = "block"

(* C35: once handleConn has returned, by whatever path, the client          *)
(* connection has been closed, the target connection has been closed if     *)
(* the dial succeeded, and no relay task is left reading; the return itself *)
(* closes the client connection.                                            *)
C35_NothingLeftOpen ==
    /\ [](pc = "done" =>
            /\ closes.c >= 1
            /\ dial = "ok" => closes.t >= 1
            /\ task.a # "reading" /\ task.b # "reading")
    /\ [][(pc # "done" /\ pc' = "done") =>
            /\ closes'.c = closes.c + 1
            /\ dial = "ok" => closes'.t = closes.t + 1]_vars

\* the handler has returned from a tunnel that the idle timeout ended, with
\* both peers still connected
C35_Witness ==
    /\ pc = "done" /\ dial = "ok" /\ ~cEOF /\ ~tEOF
    /\ closes.c >= 1 /\ closes.t >= 1 /\ idle >= IdleTicks

(* C36: connectTarget returns its own results unchanged: whenever it        *)
(* succeeds with r, connectTarget(r) succeeds with r.                       *)
C36_Idempotent ==
    (tgtOut # NoResult /\ tgtOut.ok) => connectTarget(tgtOut.addr) = tgtOut

\* the ways a target fails to split other than by a missing port or, without
\* a leading '[', by too many colons
Colons(s) == {i \in 1..Len(s) : s[i] = ":"}

LastColon(s) == CHOOSE i \in Colons(s) : \A j \in Colons(s) : j <= i

ClosingBracket(s) ==
    CHOOSE i \in 1..Len(s) : s[i] = "]" /\ \A j \in 1..(i - 1) : s[j] # "]"

Unclosed(s) ==
    s[1] = "[" /\ Colons(s) # {} /\ \A i \in 1..Len(s) : s[i] # "]"

ColonsAfterBracket(s) ==
    /\ s[1] = "[" /\ Colons(s) # {} /\ \E i \in 1..Len(s) : s[i] = "]"
    /\ ClosingBracket(s) < Len(s)
    /\ s[ClosingBracket(s) + 1] = ":"
    /\ LastColon(s) # ClosingBracket(s) + 1

StrayBracketAfter(s) ==
    /\ s[1] = "[" /\ Colons(s) # {} /\ \E i \in 1..Len(s) : s[i] = "]"
    /\ LastColon(s) = ClosingBracket(s) + 1
    /\ \/ \E i \in 2..Len(s) : s[i] = "["
       \/ \E i \in (ClosingBracket(s) + 1)..Len(s) : s[i] = "]"

StrayBracket(s) ==
    /\ s[1] # "[" /\ Cardinality(Colons(s)) = 1
    /\ \E i \in 1..Len(s) : s[i] \in {"[", "]"}

OtherSplitFailure(s) ==
    /\ s # <<>>
    /\ Unclosed(s) \/ ColonsAfterBracket(s) \/ StrayBracketAfter(s) \/ StrayBracket(s)

(* C37: a target that fails to split for a reason other than a missing port *)
(* or the too-many-colons of an unbracketed literal is refused by           *)
(* connectTarget, never given the default port.                             *)
C37_OtherFailureRejected ==
    (tgtOut # NoResult /\ OtherSplitFailure(Trimmed(tgtIn))) => ~tgtOut.ok

\* a target with a colon right after the closing bracket and another colon
\* behind it has been refused
C37_Witness ==
    /\ tgtOut # NoResult /\ ~tgtOut.ok /\ tgtIn # <<>>
    /\ ColonsAfterBracket(tgtIn) /\ ~Unsafe(tgtIn)
=============================================================================
